---- MODULE Spec2Model ----
(***************************************************************************)
(* Model of addtools/analyze_dates.py (analyze_dates and                   *)
(* save_statistics_to_csv) followed by addtools/statistical_analysis.py    *)
(* (main and its four analysis steps) run on the exported                  *)
(* date_statistics.csv.                                                    *)
(*                                                                         *)
(* Text is modelled as a sequence of one-character strings.  The CJK       *)
(* literals of the date pattern are written with ASCII stand-ins:          *)
(*   "Y" = U+5E74 (year mark), "M" = U+6708 (month mark),                  *)
(*   "D" = U+65E5 (day mark).                                              *)
(***************************************************************************)
EXTENDS Integers, Sequences, FiniteSets, TLC

\* ------------------------------------------------------------------ bounds
\* Largest number of data rows of the input CSV column.
MaxRows == 3
\* Largest count at one hour of the series given to the rolling mean.
MaxCount == 2
\* Largest number of batch_merge runs on the directory.
MaxRuns == 2
\* Largest number of rows of a source CSV file.
MaxFileRows == 2

\* --------------------------------------------------------- program constants
NumMonths == 12
NumDays == 31
NumHours == 24
\* rolling(window=3)
Window == 3
\* The header of the input CSV: one text column.
CsvColumns == <<"time">>

\* ------------------------------------------------------------------- text
Digits == <<"0", "1", "2", "3", "4", "5", "6", "7", "8", "9">>

IsDigit(c) == \E k \in 1..10 : Digits[k] = c

DigitVal(c) == (CHOOSE k \in 1..10 : Digits[k] = c) - 1

\* \s of the re module (space and tab stand for the whitespace class).
IsSpace(c) == c \in {" ", "\t"}

\* int(str): decimal value of a run of digits (leading zeros allowed).
RECURSIVE DigitsToInt(_)
DigitsToInt(ds) ==
    IF ds = <<>> THEN 0
    ELSE DigitsToInt(SubSeq(ds, 1, Len(ds) - 1)) * 10 + DigitVal(ds[Len(ds)])

\* str(int) for a non-negative integer.
RECURSIVE IntToDigits(_)
IntToDigits(n) ==
    IF n < 10 THEN <<Digits[n + 1]>>
    ELSE Append(IntToDigits(n \div 10), Digits[(n % 10) + 1])

AllDigits(s, from, to) == \A p \in from..to : p \in 1..Len(s) /\ IsDigit(s[p])

AllSpaces(s, from, to) == \A p \in from..to : p \in 1..Len(s) /\ IsSpace(s[p])

CharAt(s, p, c) == p \in 1..Len(s) /\ s[p] = c

\* --------------------------------------------------------- the date pattern
\* The fixed head of the pattern, four digits and the year mark, at i.
HeadAt(s, i) == AllDigits(s, i, i + 3) /\ CharAt(s, i + 4, "Y")

\* r'(\d{4})Y(\d{1,2})M(\d{1,2})D\s+(\d{1,2}):' tried at start position i with
\* the quantifier lengths lm, ld, lw, lh (month, day, whitespace, hour).
FitsAt(s, i, lm, ld, lw, lh) ==
    LET pY == i + 4
        pM == pY + 1 + lm
        pD == pM + 1 + ld
        pH == pD + 1 + lw
        pC == pH + lh
    IN  /\ HeadAt(s, i)
        /\ AllDigits(s, pY + 1, pM - 1)
        /\ CharAt(s, pM, "M")
        /\ AllDigits(s, pM + 1, pD - 1)
        /\ CharAt(s, pD, "D")
        /\ AllSpaces(s, pD + 1, pH - 1)
        /\ AllDigits(s, pH, pC - 1)
        /\ CharAt(s, pC, ":")

\* The declarative reading of the pattern: some start and some quantifier
\* lengths fit.
MatchesPattern(s) ==
    \E i \in 1..Len(s) :
        /\ HeadAt(s, i)
        /\ \E lm \in 1..2, ld \in 1..2 :
              /\ CharAt(s, i + 5 + lm, "M")
              /\ CharAt(s, i + 6 + lm + ld, "D")
              /\ \E lw \in 1..Len(s), lh \in 1..2 : FitsAt(s, i, lm, ld, lw, lh)

\* The matcher, piece by piece from position p: the set of lengths of the
\* piece for which the rest of the pattern matches.
HourLens(s, p) ==
    {lh \in 1..2 : AllDigits(s, p, p + lh - 1) /\ CharAt(s, p + lh, ":")}

SpaceLens(s, p) ==
    {lw \in 1..(Len(s) - p + 1) : AllSpaces(s, p, p + lw - 1) /\ HourLens(s, p + lw) # {}}

DayLens(s, p) ==
    {ld \in 1..2 : /\ AllDigits(s, p, p + ld - 1)
                   /\ CharAt(s, p + ld, "D")
                   /\ SpaceLens(s, p + ld + 1) # {}}

MonthLens(s, p) ==
    {lm \in 1..2 : /\ AllDigits(s, p, p + lm - 1)
                   /\ CharAt(s, p + lm, "M")
                   /\ DayLens(s, p + lm + 1) # {}}

MatchesAt(s, i) == HeadAt(s, i) /\ MonthLens(s, i + 5) # {}

Longest(S) == CHOOSE n \in S : \A m \in S : m <= n

NoMatch == [matched |-> FALSE]

Groups(s, i, lm, ld, lw, lh) ==
    [matched |-> TRUE,
     g1 |-> SubSeq(s, i, i + 3),
     g2 |-> SubSeq(s, i + 5, i + 4 + lm),
     g3 |-> SubSeq(s, i + 6 + lm, i + 5 + lm + ld),
     g4 |-> SubSeq(s, i + 6 + lm + ld + lw + 1, i + 6 + lm + ld + lw + lh)]

\* The groups of the match at start i: every quantifier is greedy and takes
\* the longest length for which the rest of the pattern matches.
GroupsAt(s, i) ==
    LET lm == Longest(MonthLens(s, i + 5))
        ld == Longest(DayLens(s, i + 6 + lm))
        lw == Longest(SpaceLens(s, i + 7 + lm + ld))
        lh == Longest(HourLens(s, i + 7 + lm + ld + lw))
    IN  Groups(s, i, lm, ld, lw, lh)

\* re.match in place of re.search: the pattern anchored at the first character.
re_match(s) == IF MatchesAt(s, 1) THEN GroupsAt(s, 1) ELSE NoMatch

\* re.search: the match at the leftmost start position, or no match.
re_search(s) ==
    LET starts == {i \in 1..Len(s) : MatchesAt(s, i)}
    IN  IF starts = {} THEN NoMatch
        ELSE GroupsAt(s, CHOOSE i \in starts : \A j \in starts : i <= j)

\* ------------------------------------------------------------ input cells
\* Cell texts the input column is drawn from (str(date_str) of each cell).
CellMay2023 == <<"2","0","2","3","Y","5","M","1","D"," ","1","0",":","0","0">>
CellJan2022 == <<"2","0","2","2","Y","1","M","3","D"," ","1","0",":","1","5">>
CellNotADate == <<"n","o","t"," ","a"," ","d","a","t","e">>
\* month 0 and day 0: accepted by \d{1,2}
CellMonth0 == <<"2","0","2","3","Y","0","M","0","D"," ","9",":">>
CellDec2023 == <<"2","0","2","3","Y","1","2","M","3","1","D","\t","2","3",":","5","9">>
\* month 13 and day 32: accepted by \d{1,2}
CellMonth13 == <<"2","0","2","2","Y","1","3","M","3","2","D"," ","7",":","5">>
\* no whitespace between the day mark and the hour
CellNoSpace == <<"2","0","2","3","Y","5","M","1","D","1","0",":","0","0">>
\* leading text, five digits before the year mark, leading zeros, two spaces
CellPrefixed ==
    <<"x","1","2","0","2","2","Y","0","1","M","0","3","D"," "," ","0","8",":","0","0">>

\* hour 25: accepted by \d{1,2}
CellHour25 == <<"2","0","2","4","Y","2","M","3","0","D"," ","2","5",":","0","0">>

SampleCells ==
    {CellMay2023, CellJan2022, CellNotADate, CellMonth0, CellDec2023, CellMonth13,
     CellNoSpace, CellPrefixed, CellHour25}

RECURSIVE SeqsUpTo(_, _)
SeqsUpTo(S, n) ==
    IF n = 0 THEN {<<>>}
    ELSE LET shorter == SeqsUpTo(S, n - 1)
         IN  shorter \cup {Append(q, x) : q \in {r \in shorter : Len(r) = n - 1}, x \in S}

\* ----------------------------------------------------------- pandas helpers
\* A Series of counts is a sequence of <<key, count>> pairs in index order.
Keys(t) == [k \in 1..Len(t) |-> t[k][1]]

Counts(t) == [k \in 1..Len(t) |-> t[k][2]]

RECURSIVE SumSeq(_)
SumSeq(xs) == IF xs = <<>> THEN 0 ELSE xs[1] + SumSeq(Tail(xs))

Occurrences(xs, v) == Cardinality({k \in 1..Len(xs) : xs[k] = v})

\* The distinct values of xs in order of first appearance.
RECURSIVE Uniques(_)
Uniques(xs) ==
    IF xs = <<>> THEN <<>>
    ELSE LET rest == Uniques(SubSeq(xs, 1, Len(xs) - 1))
             x == xs[Len(xs)]
         IN  IF \E k \in 1..Len(rest) : rest[k] = x THEN rest ELSE Append(rest, x)

\* Stable insertion of pair p after the pairs of t that are at least as
\* frequent.
RECURSIVE InsertByCount(_, _)
InsertByCount(p, t) ==
    IF t = <<>> THEN <<p>>
    ELSE IF t[1][2] >= p[2] THEN <<t[1]>> \o InsertByCount(p, Tail(t))
    ELSE <<p>> \o t

\* Series.value_counts(): one entry per distinct value, most frequent first,
\* equal counts in order of first appearance.
RECURSIVE SortByCount(_)
SortByCount(t) ==
    IF t = <<>> THEN <<>>
    ELSE InsertByCount(t[Len(t)], SortByCount(SubSeq(t, 1, Len(t) - 1)))

value_counts(xs) ==
    LET u == Uniques(xs)
    IN  SortByCount([k \in 1..Len(u) |-> <<u[k], Occurrences(xs, u[k])>>])

RECURSIVE InsertByKey(_, _)
InsertByKey(p, t) ==
    IF t = <<>> THEN <<p>>
    ELSE IF t[1][1] <= p[1] THEN <<t[1]>> \o InsertByKey(p, Tail(t))
    ELSE <<p>> \o t

\* Series.sort_index(): ascending by key.
RECURSIVE sort_index(_)
sort_index(t) ==
    IF t = <<>> THEN <<>>
    ELSE InsertByKey(t[Len(t)], sort_index(SubSeq(t, 1, Len(t) - 1)))

\* sorted(set(xs))
sorted_set(xs) ==
    LET u == Uniques(xs)
    IN  Keys(sort_index([k \in 1..Len(u) |-> <<u[k], 0>>]))

\* date_data[date_data['year'] == year][field]
FieldOfYear(field, ys, year) ==
    LET RECURSIVE Pick(_)
        Pick(k) ==
            IF k > Len(ys) THEN <<>>
            ELSE IF ys[k] = year THEN <<field[k]>> \o Pick(k + 1)
            ELSE Pick(k + 1)
    IN  Pick(1)

\* numpy index idx on an axis of length n: 1-based position, 0 when out of
\* bounds (negative indices count from the end).
NumpyIndex(idx, n) ==
    IF idx \in 0..(n - 1) THEN idx + 1
    ELSE IF idx \in (-n)..(-1) THEN idx + n + 1
    ELSE 0

\* for unit, count in counts.items(): matrix[i, unit-1] = count
\* (ok = FALSE when an index raises IndexError).
RECURSIVE FillRow(_, _)
FillRow(rowvec, counts) ==
    IF counts = <<>> THEN [ok |-> TRUE, row |-> rowvec]
    ELSE LET pos == NumpyIndex(counts[1][1] - 1, Len(rowvec))
         IN  IF pos = 0 THEN [ok |-> FALSE, row |-> rowvec]
             ELSE FillRow([rowvec EXCEPT ![pos] = counts[1][2]], Tail(counts))

Zeros(n) == [k \in 1..n |-> 0]

\* ------------------------------------------------- save_statistics_to_csv
\* A cell of a DataFrame column: a number, or the missing-value marker.
NaN == <<>>

Num(v) == <<v>>

IsNaN(x) == x = NaN

Max2(a, b) == IF a >= b THEN a ELSE b

\* Padding with the count 0 in place of None.
PadColumnWithZero(column, max_len) ==
    LET vals == [k \in 1..Len(column) |-> Num(column[k])]
    IN  IF Len(column) < max_len
        THEN vals \o [k \in 1..(max_len - Len(column)) |-> Num(0)]
        ELSE vals

\* list(column) + [None] * (max_len - len(column)), when shorter than max_len
PadColumn(column, max_len) ==
    LET vals == [k \in 1..Len(column) |-> Num(column[k])]
    IN  IF Len(column) < max_len
        THEN vals \o [k \in 1..(max_len - Len(column)) |-> NaN]
        ELSE vals

ColumnNames ==
    <<"year", "year_count", "month", "month_count",
      "day", "day_count", "hour", "hour_count">>

\* stats_df of save_statistics_to_csv: eight columns, in the order of
\* ColumnNames.
StatsFrame(yc, mc, dc, hc) ==
    LET max_len == Max2(Max2(Len(yc), Len(mc)), Max2(Len(dc), Len(hc)))
    IN  <<PadColumn(Keys(yc), max_len), PadColumn(Counts(yc), max_len),
          PadColumn(Keys(mc), max_len), PadColumn(Counts(mc), max_len),
          PadColumn(Keys(dc), max_len), PadColumn(Counts(dc), max_len),
          PadColumn(Keys(hc), max_len), PadColumn(Counts(hc), max_len)>>

\* A column holding a missing value is a float64 column (object when it
\* holds nothing else); a column of integers stays int64.
HasNaN(column) == \E k \in 1..Len(column) : IsNaN(column[k])

\* to_csv with na_rep='0': a missing value written as 0.
FormatCellNaAsZero(x, floatColumn) ==
    IF IsNaN(x) THEN <<"0">>
    ELSE IF floatColumn THEN IntToDigits(x[1]) \o <<".", "0">>
    ELSE IntToDigits(x[1])

\* to_csv of one cell: integers as digits, floats with a fraction, a
\* missing value as the empty field.
FormatCell(x, floatColumn) ==
    IF IsNaN(x) THEN <<>>
    ELSE IF floatColumn THEN IntToDigits(x[1]) \o <<".", "0">>
    ELSE IntToDigits(x[1])

\* DataFrame.to_csv(index=False): the data rows, each a tuple of 8 fields.
to_csv(frame) ==
    LET n == Len(frame[1])
    IN  [r \in 1..n |->
            [c \in 1..Len(frame) |-> FormatCell(frame[c][r], HasNaN(frame[c]))]]

\* ------------------------------------------------- analyze_dates: state
VARIABLES
    csv_exists,     \* os.path.exists(csv_path)
    csv_rows,       \* column 0 of the CSV file, one text per data row
    date_column,    \* the date_column argument
    pc,             \* position in analyze_dates
    date_series,    \* df.iloc[:, date_column]
    row,            \* index of the next cell of the extraction loop
    years, months, days, hours,
    year_counts, hour_counts, month_counts, day_counts,
    unique_years,
    yi,             \* index of the next year of the aggregation loop
    month_matrix, day_matrix,
    stats_df,       \* the flat table built by save_statistics_to_csv
    stats_path,     \* what save_statistics_to_csv returned
    stats_file,     \* date_statistics.csv on disk
    chart_file,     \* date_distribution.png on disk
    console         \* the messages printed so far

avars ==
    <<csv_exists, csv_rows, date_column, pc, date_series, row, years, months, days,
      hours, year_counts, hour_counts, month_counts, day_counts, unique_years, yi,
      month_matrix, day_matrix, stats_df, stats_path, stats_file, chart_file, console>>

\* ------------------------------------------ statistical_analysis: state
VARIABLES
    mpc,            \* position in main of statistical_analysis
    df,             \* the table returned by load_and_prepare_data
    steps,          \* the analysis steps main has called, in call order
    month_data,     \* the contingency table of perform_chi_square_test
    chi2,           \* what perform_chi_square_test returned
    hour_groups,    \* the groups of perform_anova
    f_stat,         \* what perform_anova returned
    corr_matrix,    \* what create_correlation_heatmap returned
    heatmap_file,   \* correlation_heatmap.png on disk
    time_series     \* what perform_time_series_analysis returned

mvars ==
    <<mpc, df, steps, month_data, chi2, hour_groups, f_stat, corr_matrix,
      heatmap_file, time_series>>

\* ------------------------------------------------ rolling mean: state
VARIABLES
    roll_pc,        \* "idle", "input" (series given) or "done" (mean computed)
    roll_series,    \* the values of a 24-hour time_series
    roll_ma         \* time_series.rolling(window=3).mean()

rvars == <<roll_pc, roll_series, roll_ma>>

\* -------------------------------------------------- batch_merge: state
VARIABLES
    dir_files,      \* the CSV files of input_dir: name -> content
    dir_order,      \* the order in which the directory lists its entries
    merge_type,     \* the merge_type argument
    run_count,      \* the number of batch_merge runs so far
    merge_log       \* per run: the files merged, in order, and what was written

bvars == <<dir_files, dir_order, merge_type, run_count, merge_log>>

xvars == <<rvars, bvars>>

vars == <<avars, mvars, xvars>>

NoFile == [exists |-> FALSE, rows |-> <<>>]

None == "None"

AnalyzeInit ==
    /\ csv_exists \in BOOLEAN
    /\ date_column \in 0..Len(CsvColumns)
    /\ csv_rows \in (IF csv_exists /\ date_column < Len(CsvColumns)
                     THEN SeqsUpTo(SampleCells, MaxRows) ELSE {<<>>})
    /\ pc = "start"
    /\ date_series = <<>>
    /\ row = 1
    /\ years = <<>> /\ months = <<>> /\ days = <<>> /\ hours = <<>>
    /\ year_counts = <<>> /\ hour_counts = <<>>
    /\ month_counts = <<>> /\ day_counts = <<>>
    /\ unique_years = <<>>
    /\ yi = 1
    /\ month_matrix = <<>> /\ day_matrix = <<>>
    /\ stats_df = <<>>
    /\ stats_path = None
    /\ stats_file = NoFile
    /\ chart_file = FALSE
    /\ console = {}

\* ----------------------------------------------- analyze_dates: actions
\* The except clause of analyze_dates: report and return.
AnalysisError ==
    /\ console' = console \cup {"analysis_error"}
    /\ pc' = "done"

\* Lines 80-90: existence check, read_csv, column selection.
OpenCsv ==
    /\ pc = "start"
    /\ IF ~csv_exists \/ date_column >= Len(CsvColumns)
       THEN /\ AnalysisError
            /\ UNCHANGED date_series
       ELSE /\ date_series' = csv_rows
            /\ pc' = "extract"
            /\ UNCHANGED console
    /\ UNCHANGED <<xvars, mvars, csv_exists, csv_rows, date_column, row, years, months, days, hours,
                   year_counts, hour_counts, month_counts, day_counts, unique_years,
                   yi, month_matrix, day_matrix, stats_df, stats_path, stats_file,
                   chart_file>>

\* Whether the loop body appends the groups of this match.
Extracts(m) == m.matched

\* Lines 98-105: one iteration of the extraction loop.
ExtractRow ==
    /\ pc = "extract"
    /\ row <= Len(date_series)
    /\ LET match == re_search(date_series[row])
       IN  IF Extracts(match)
           THEN /\ years' = Append(years, DigitsToInt(match.g1))
                /\ months' = Append(months, DigitsToInt(match.g2))
                /\ days' = Append(days, DigitsToInt(match.g3))
                /\ hours' = Append(hours, DigitsToInt(match.g4))
           ELSE UNCHANGED <<years, months, days, hours>>
    /\ row' = row + 1
    /\ UNCHANGED <<xvars, mvars, csv_exists, csv_rows, date_column, pc, date_series, year_counts,
                   hour_counts, month_counts, day_counts, unique_years, yi,
                   month_matrix, day_matrix, stats_df, stats_path, stats_file,
                   chart_file, console>>

\* The emptiness check of line 107 left out.
HasDataUnchecked(ys) == TRUE

\* Whether analyze_dates goes on after the extraction loop (line 107).
HasData(ys) == ys # <<>>

\* Lines 107-109: nothing extracted, report and return.
NoMatchReturn ==
    /\ pc = "extract"
    /\ row > Len(date_series)
    /\ ~HasData(years)
    /\ console' = console \cup {"no_match"}
    /\ pc' = "done"
    /\ UNCHANGED <<xvars, mvars, csv_exists, csv_rows, date_column, date_series, row, years, months,
                   days, hours, year_counts, hour_counts, month_counts, day_counts,
                   unique_years, yi, month_matrix, day_matrix, stats_df, stats_path,
                   stats_file, chart_file>>

\* Lines 111-130: the year and hour tables, the year list, the zero matrices.
CountYearsHours ==
    /\ pc = "extract"
    /\ row > Len(date_series)
    /\ HasData(years)
    /\ year_counts' = sort_index(value_counts(years))
    /\ hour_counts' = sort_index(value_counts(hours))
    /\ unique_years' = sorted_set(years)
    /\ month_matrix' = [i \in 1..Len(sorted_set(years)) |-> Zeros(NumMonths)]
    /\ day_matrix' = [i \in 1..Len(sorted_set(years)) |-> Zeros(NumDays)]
    /\ yi' = 1
    /\ pc' = "year_loop"
    /\ UNCHANGED <<xvars, mvars, csv_exists, csv_rows, date_column, date_series, row, years, months,
                   days, hours, month_counts, day_counts, stats_df, stats_path,
                   stats_file, chart_file, console>>

\* Lines 132-143: one iteration of the loop over unique_years.
AggregateYear ==
    /\ pc = "year_loop"
    /\ yi <= Len(unique_years)
    /\ LET year == unique_years[yi]
           mc == value_counts(FieldOfYear(months, years, year))
           dc == value_counts(FieldOfYear(days, years, year))
           mrow == FillRow(month_matrix[yi], mc)
           drow == FillRow(day_matrix[yi], dc)
       IN  /\ month_counts' = mc
           /\ day_counts' = dc
           /\ IF ~mrow.ok
              THEN /\ AnalysisError
                   /\ UNCHANGED <<month_matrix, day_matrix, yi>>
              ELSE /\ month_matrix' = [month_matrix EXCEPT ![yi] = mrow.row]
                   /\ IF ~drow.ok
                      THEN /\ AnalysisError
                           /\ UNCHANGED <<day_matrix, yi>>
                      ELSE /\ day_matrix' = [day_matrix EXCEPT ![yi] = drow.row]
                           /\ yi' = yi + 1
                           /\ UNCHANGED <<pc, console>>
    /\ UNCHANGED <<xvars, mvars, csv_exists, csv_rows, date_column, date_series, row, years, months,
                   days, hours, year_counts, hour_counts, unique_years, stats_df,
                   stats_path, stats_file, chart_file>>

\* Lines 145-234: the four subplots are drawn and the four tables printed.
PlotAndPrint ==
    /\ pc = "year_loop"
    /\ yi > Len(unique_years)
    /\ console' = console \cup {"tables_printed"}
    /\ pc' = "export"
    /\ UNCHANGED <<xvars, mvars, csv_exists, csv_rows, date_column, date_series, row, years, months,
                   days, hours, year_counts, hour_counts, month_counts, day_counts,
                   unique_years, yi, month_matrix, day_matrix, stats_df, stats_path,
                   stats_file, chart_file>>

\* save_statistics_to_csv without its try block: a failing write ends
\* analyze_dates in its except clause.
SaveStatisticsUncaught ==
    /\ pc = "export"
    /\ stats_df' = StatsFrame(year_counts, month_counts, day_counts, hour_counts)
    /\ \E written \in BOOLEAN :
          IF written
          THEN /\ stats_file' = [exists |-> TRUE, rows |-> to_csv(stats_df')]
               /\ stats_path' = "date_statistics.csv"
               /\ console' = console \cup {"stats_saved"}
               /\ pc' = "save_chart"
          ELSE /\ AnalysisError
               /\ UNCHANGED <<stats_path, stats_file>>
    /\ UNCHANGED <<xvars, mvars, csv_exists, csv_rows, date_column, date_series, row, years, months,
                   days, hours, year_counts, hour_counts, month_counts, day_counts,
                   unique_years, yi, month_matrix, day_matrix, chart_file>>

\* Lines 236-238 with save_statistics_to_csv (37-74): the flat table is built
\* and written; a failing write is reported and None returned.
SaveStatistics ==
    /\ pc = "export"
    /\ stats_df' = StatsFrame(year_counts, month_counts, day_counts, hour_counts)
    /\ \E written \in BOOLEAN :
          IF written
          THEN /\ stats_file' = [exists |-> TRUE, rows |-> to_csv(stats_df')]
               /\ stats_path' = "date_statistics.csv"
               /\ console' = console \cup {"stats_saved"}
          ELSE /\ stats_path' = None
               /\ console' = console \cup {"export_error"}
               /\ UNCHANGED stats_file
    /\ pc' = "save_chart"
    /\ UNCHANGED <<xvars, mvars, csv_exists, csv_rows, date_column, date_series, row, years, months,
                   days, hours, year_counts, hour_counts, month_counts, day_counts,
                   unique_years, yi, month_matrix, day_matrix, chart_file>>

\* Lines 240-252: tight_layout and savefig; a failing save is reported by the
\* except clause.
SaveChart ==
    /\ pc = "save_chart"
    /\ \E saved \in BOOLEAN :
          IF saved
          THEN /\ chart_file' = TRUE
               /\ console' = console \cup {"chart_saved"}
               /\ pc' = "done"
          ELSE /\ AnalysisError
               /\ UNCHANGED chart_file
    /\ UNCHANGED <<xvars, mvars, csv_exists, csv_rows, date_column, date_series, row, years, months,
                   days, hours, year_counts, hour_counts, month_counts, day_counts,
                   unique_years, yi, month_matrix, day_matrix, stats_df, stats_path,
                   stats_file>>

\* -------------------------------------------------------------- read_csv
DotAt(text) ==
    IF \E k \in 1..Len(text) : text[k] = "."
    THEN CHOOSE k \in 1..Len(text) : text[k] = "." /\ \A j \in 1..(k - 1) : text[j] # "."
    ELSE 0

\* The value read_csv gives a numeric field: the empty field is a missing
\* value; digits are an integer; digits with a fraction are a float, which
\* is the number Num(v) when the fraction is zero and <<v, fraction>>
\* otherwise.
ParseCell(text) ==
    IF text = <<>> THEN NaN
    ELSE IF DotAt(text) = 0 THEN Num(DigitsToInt(text))
    ELSE LET ip == DigitsToInt(SubSeq(text, 1, DotAt(text) - 1))
             frac == SubSeq(text, DotAt(text) + 1, Len(text))
         IN  IF \A k \in 1..Len(frac) : frac[k] = "0" THEN Num(ip) ELSE <<ip, frac>>

\* pd.read_csv of the rows written by to_csv: eight columns of values.
read_csv(rows) ==
    [c \in 1..Len(ColumnNames) |-> [r \in 1..Len(rows) |-> ParseCell(rows[r][c])]]

Col(name) == CHOOSE c \in 1..Len(ColumnNames) : ColumnNames[c] = name

\* The <<key, value>> pairs of two columns of a table, rows with a missing
\* key left out.
RECURSIVE KeyedRows(_, _)
KeyedRows(keycol, valcol) ==
    IF keycol = <<>> THEN <<>>
    ELSE LET rest == KeyedRows(Tail(keycol), Tail(valcol))
         IN  IF IsNaN(keycol[1]) THEN rest ELSE <<(<<keycol[1], valcol[1]>>)>> \o rest

\* -------------------------------------------- statistical_analysis: steps
\* pd.crosstab(a, b): rows are the distinct values of a, columns the distinct
\* values of b, both ascending, over the rows where neither is missing; a
\* cell counts the rows with that pair.
crosstab(a, b) ==
    LET pairs == KeyedRows(a, b)
        full == [k \in {j \in 1..Len(pairs) : ~IsNaN(pairs[j][2])} |-> pairs[k]]
        idx == DOMAIN full
        rk == {full[k][1][1] : k \in idx}
        ck == {full[k][2][1] : k \in idx}
        Asc(S) == sorted_set(CHOOSE q \in [1..Cardinality(S) -> S] :
                                \A x \in S : \E k \in 1..Cardinality(S) : q[k] = x)
    IN  [rows |-> Asc(rk),
         cols |-> Asc(ck),
         cells |-> [r \in rk |-> [c \in ck |->
                      Cardinality({k \in idx : full[k][1][1] = r /\ full[k][2][1] = c})]]]

\* stats.chi2_contingency raises on a table of size 0.
Chi2Raises(table) == table.rows = <<>> \/ table.cols = <<>>

\* [group for _, group in df.groupby(key)[value]]: one group per distinct
\* key, ascending, rows with a missing key left out.
groupby(keycol, valcol) ==
    LET pairs == KeyedRows(keycol, valcol)
        ks == sorted_set([k \in 1..Len(pairs) |-> pairs[k][1][1]])
    IN  [g \in 1..Len(ks) |->
            <<ks[g], FieldOfYear([k \in 1..Len(pairs) |-> pairs[k][2]],
                                 [k \in 1..Len(pairs) |-> pairs[k][1][1]], ks[g])>>]

\* stats.f_oneway raises when given fewer than two samples.
AnovaRaises(groups) == Len(groups) < 2

\* An inner merge in place of the left merge: unmatched hours are left out.
HourSeriesInner(hourcol, countcol) ==
    LET pairs == KeyedRows(hourcol, countcol)
        Filled(x) == IF IsNaN(x) THEN 0 ELSE x[1]
        RECURSIVE From(_)
        From(h) ==
            IF h >= NumHours THEN <<>>
            ELSE LET found == FieldOfYear([k \in 1..Len(pairs) |-> Filled(pairs[k][2])],
                                          [k \in 1..Len(pairs) |-> pairs[k][1][1]], h)
                 IN  [k \in 1..Len(found) |-> <<h, found[k]>>] \o From(h + 1)
    IN  From(0)

\* The left merge of range(24) with the hour table, counts of unmatched
\* hours and missing counts filled with 0 (lines 73-86).
HourSeries(hourcol, countcol) ==
    LET pairs == KeyedRows(hourcol, countcol)
        Filled(x) == IF IsNaN(x) THEN 0 ELSE x[1]
        RECURSIVE From(_)
        From(h) ==
            IF h >= NumHours THEN <<>>
            ELSE LET hit == {k \in 1..Len(pairs) : pairs[k][1] = Num(h)}
                     found == FieldOfYear([k \in 1..Len(pairs) |-> Filled(pairs[k][2])],
                                          [k \in 1..Len(pairs) |-> pairs[k][1][1]], h)
                 IN  (IF hit = {} THEN <<(<<h, 0>>)>>
                      ELSE [k \in 1..Len(found) |-> <<h, found[k]>>]) \o From(h + 1)
    IN  From(0)

NoTable == [loaded |-> FALSE, cols |-> <<>>]

MainInit ==
    /\ mpc = "start"
    /\ df = NoTable
    /\ steps = <<>>
    /\ month_data = [rows |-> <<>>, cols |-> <<>>, cells |-> <<>>]
    /\ chi2 = "unset"
    /\ hour_groups = <<>>
    /\ f_stat = "unset"
    /\ corr_matrix = "unset"
    /\ heatmap_file = FALSE
    /\ time_series = [returned |-> FALSE, series |-> <<>>]

astate ==
    <<csv_exists, csv_rows, date_column, pc, date_series, row, years, months, days,
      hours, year_counts, hour_counts, month_counts, day_counts, unique_years, yi,
      month_matrix, day_matrix, stats_df, stats_path, stats_file, chart_file>>

\* Lines 212-218 with load_and_prepare_data (15-25): main is run on the path
\* of date_statistics.csv once analyze_dates has returned.
LoadData ==
    /\ pc = "done"
    /\ mpc = "start"
    /\ IF stats_file.exists
       THEN /\ df' = [loaded |-> TRUE, cols |-> read_csv(stats_file.rows)]
            /\ mpc' = "chi_square"
            /\ UNCHANGED console
       ELSE /\ console' = console \cup {"load_error"}
            /\ mpc' = "returned"
            /\ UNCHANGED df
    /\ UNCHANGED <<xvars, astate, steps, month_data, chi2, hour_groups, f_stat, corr_matrix,
                   heatmap_file, time_series>>

\* Line 221 with perform_chi_square_test (27-44).
ChiSquareStep ==
    /\ mpc = "chi_square"
    /\ steps' = Append(steps, "chi_square")
    /\ month_data' = crosstab(df.cols[Col("month")], df.cols[Col("month_count")])
    /\ IF Chi2Raises(month_data')
       THEN /\ chi2' = None
            /\ console' = console \cup {"chi_square_error"}
       ELSE /\ chi2' = "computed"
            /\ UNCHANGED console
    /\ mpc' = "anova"
    /\ UNCHANGED <<xvars, astate, df, hour_groups, f_stat, corr_matrix, heatmap_file,
                   time_series>>

\* Line 224 with perform_anova (46-65).
AnovaStep ==
    /\ mpc = "anova"
    /\ steps' = Append(steps, "anova")
    /\ hour_groups' = groupby(df.cols[Col("hour")], df.cols[Col("hour_count")])
    /\ IF AnovaRaises(hour_groups')
       THEN /\ f_stat' = None
            /\ console' = console \cup {"anova_error"}
       ELSE /\ f_stat' = "computed"
            /\ UNCHANGED console
    /\ mpc' = "correlation"
    /\ UNCHANGED <<xvars, astate, df, month_data, chi2, corr_matrix, heatmap_file, time_series>>

\* Lines 227-229 with create_correlation_heatmap (190-206): the savefig of
\* line 229 is outside every try block, a failing save leaves main by the
\* exception.
CorrelationStep ==
    /\ mpc = "correlation"
    /\ steps' = Append(steps, "correlation")
    /\ corr_matrix' = "computed"
    /\ \E saved \in BOOLEAN :
          IF saved
          THEN /\ heatmap_file' = TRUE
               /\ mpc' = "time_series"
          ELSE /\ mpc' = "raised"
               /\ UNCHANGED heatmap_file
    /\ UNCHANGED <<xvars, astate, console, df, month_data, chi2, hour_groups, f_stat,
                   time_series>>

\* Line 232 with perform_time_series_analysis (67-188): the series is built,
\* the three figures saved; a failure is reported and None returned.
TimeSeriesStep ==
    /\ mpc = "time_series"
    /\ steps' = Append(steps, "time_series")
    /\ \E saved \in BOOLEAN :
          IF saved
          THEN /\ time_series' =
                    [returned |-> TRUE,
                     series |-> HourSeries(df.cols[Col("hour")], df.cols[Col("hour_count")])]
               /\ UNCHANGED console
          ELSE /\ time_series' = [returned |-> FALSE, series |-> <<>>]
               /\ console' = console \cup {"time_series_error"}
    /\ mpc' = "returned"
    /\ UNCHANGED <<xvars, astate, df, month_data, chi2, hour_groups, f_stat, corr_matrix,
                   heatmap_file>>

\* --------------------------------------------------------- specification
SourceNames == {"a.csv", "b.csv", "c.csv"}

\* os.path.join(input_dir, "merged_all.csv") (line 94)
DefaultOutput == "merged_all.csv"

FileNames == SourceNames \cup {DefaultOutput}

Absent == [present |-> FALSE, cols |-> <<>>, rows |-> 0]

MergeIdle ==
    /\ dir_files = [n \in FileNames |-> Absent]
    /\ dir_order = <<>>
    /\ merge_type = "outer"
    /\ run_count = 0
    /\ merge_log = <<>>

RollIdle ==
    /\ roll_pc = "idle"
    /\ roll_series = <<>>
    /\ roll_ma = <<>>

Init == AnalyzeInit /\ MainInit /\ RollIdle /\ MergeIdle

Next ==
    \/ OpenCsv
    \/ ExtractRow
    \/ NoMatchReturn
    \/ CountYearsHours
    \/ AggregateYear
    \/ PlotAndPrint
    \/ SaveStatistics
    \/ SaveChart
    \/ LoadData
    \/ ChiSquareStep
    \/ AnovaStep
    \/ CorrelationStep
    \/ TimeSeriesStep

Spec == Init /\ [][Next]_vars

\* ------------------------------------------------------- rolling mean
\* A mean is kept exact, as the pair <<sum, number of values>>.
Mean(xs) == <<SumSeq(xs), Len(xs)>>

SameNumber(a, b) == a[1] * b[2] = b[1] * a[2]

\* A window that runs on from hour 23 to hour 0.
rolling_mean_circular(values, window) ==
    [i \in 1..Len(values) |->
        Mean([k \in 1..window |-> values[((i - window + k - 1) % Len(values)) + 1]])]

\* Series.rolling(window).mean(): missing until the window is full, then the
\* mean of the last `window` values (line 100).
rolling_mean(values, window) ==
    [i \in 1..Len(values) |->
        IF i < window THEN NaN ELSE Mean(SubSeq(values, i - window + 1, i))]

\* The series 1, 2, ..., 24.
Ramp == [h \in 1..NumHours |-> h]

\* A dense hourly series with the counts x and y at the hours a and b.
Spikes(a, x, b, y) ==
    [h \in 1..NumHours |-> (IF h = a THEN x ELSE 0) + (IF h = b THEN y ELSE 0)]

RollInputs ==
    {Ramp} \cup {Spikes(a, x, b, y) : a \in 1..NumHours, b \in 1..NumHours,
                                      x \in 0..MaxCount, y \in 0..MaxCount}

PipelineIdle ==
    /\ AnalyzeInit
    /\ ~csv_exists
    /\ date_column = 0
    /\ MainInit

RollInit ==
    /\ PipelineIdle
    /\ MergeIdle
    /\ roll_pc = "input"
    /\ roll_series \in RollInputs
    /\ roll_ma = <<>>

\* Line 100: ma = time_series.rolling(window=3).mean()
RollingMean ==
    /\ roll_pc = "input"
    /\ roll_ma' = rolling_mean(roll_series, Window)
    /\ roll_pc' = "done"
    /\ UNCHANGED <<avars, mvars, bvars, roll_series>>

RollNext == RollingMean

RollSpec == RollInit /\ [][RollNext]_vars

\* -------------------------------------------------------- batch_merge
\* A source file of n rows with one column of its own.
SourceFile(name, n) == [present |-> TRUE, cols |-> <<(<<name>>)>>, rows |-> n]

\* Path(input_dir).glob("*.csv"): the CSV files present, in directory order.
RECURSIVE glob_csv(_, _)
glob_csv(files, order) ==
    IF order = <<>> THEN <<>>
    ELSE IF files[order[1]].present THEN <<order[1]>> \o glob_csv(files, Tail(order))
    ELSE glob_csv(files, Tail(order))

Min2(a, b) == IF a <= b THEN a ELSE b

\* pd.merge(left, right, left_index=True, right_index=True, how=how):
\* the columns of both sides, a column name found on both sides suffixed
\* _x on the left and _y on the right; the rows of the joined index.
merge_on_index(left, right, how) ==
    LET Shared(c) ==
            /\ \E k \in 1..Len(left.cols) : left.cols[k] = c
            /\ \E k \in 1..Len(right.cols) : right.cols[k] = c
        Suffixed(cols, sfx) ==
            [k \in 1..Len(cols) |-> IF Shared(cols[k]) THEN Append(cols[k], sfx) ELSE cols[k]]
    IN  [present |-> TRUE,
         cols |-> Suffixed(left.cols, "_x") \o Suffixed(right.cols, "_y"),
         rows |-> CASE how = "outer" -> Max2(left.rows, right.rows)
                    [] how = "inner" -> Min2(left.rows, right.rows)
                    [] how = "left" -> left.rows
                    [] how = "right" -> right.rows]

\* Lines 79-90: the first file merged with each of the others in turn.
RECURSIVE merge_all(_, _, _, _)
merge_all(result, names, files, how) ==
    IF names = <<>> THEN result
    ELSE merge_all(merge_on_index(result, files[names[1]], how), Tail(names), files, how)

Orderings(S) ==
    {q \in [1..Cardinality(S) -> S] : \A x \in S : \E k \in 1..Cardinality(S) : q[k] = x}

MergeInit ==
    /\ PipelineIdle
    /\ RollIdle
    /\ \E present \in SUBSET SourceNames, n \in 1..MaxFileRows :
          dir_files = [f \in FileNames |->
                          IF f \in present
                          THEN SourceFile(f, IF f = "a.csv" THEN n ELSE 1)
                          ELSE Absent]
    /\ dir_order \in Orderings(FileNames)
    /\ merge_type \in {"inner", "outer", "left", "right"}
    /\ run_count = 0
    /\ merge_log = <<>>

\* batch_merge(input_dir) with the default output_path (lines 70-102).
BatchMerge ==
    /\ run_count < MaxRuns
    /\ run_count' = run_count + 1
    /\ LET csv_files == glob_csv(dir_files, dir_order)
       IN  IF Len(csv_files) < 2
           THEN /\ merge_log' = Append(merge_log,
                                       [merged |-> csv_files, wrote |-> FALSE, output |-> Absent])
                /\ UNCHANGED dir_files
           ELSE LET result_df == merge_all(dir_files[csv_files[1]], Tail(csv_files),
                                           dir_files, merge_type)
                IN  /\ dir_files' = [dir_files EXCEPT ![DefaultOutput] = result_df]
                    /\ merge_log' = Append(merge_log,
                                           [merged |-> csv_files, wrote |-> TRUE,
                                            output |-> result_df])
    /\ UNCHANGED <<avars, mvars, rvars, dir_order, merge_type>>

MergeNext == BatchMerge

MergeSpec == MergeInit /\ [][MergeNext]_vars

\* ================================================================ claims
InputUnreadable == ~csv_exists \/ date_column >= Len(CsvColumns)

\* The rows of the column the extraction loop has passed.
RowsDone == 1..(IF row - 1 <= Len(date_series) THEN row - 1 ELSE Len(date_series))

MatchingRows == {k \in RowsDone : MatchesPattern(date_series[k])}

\* C1: the extraction loop yields one (year, month, day, hour) tuple per row
\* whose text matches the pattern and none for any other row: the number of
\* tuples is the number of matching rows passed so far, never more than the
\* number of rows, and the four lists have equal length.
C1_OneTuplePerMatchingRow ==
    /\ Len(months) = Len(years)
    /\ Len(days) = Len(years)
    /\ Len(hours) = Len(years)
    /\ Len(years) <= Len(date_series)
    /\ pc = "extract" => Len(years) = Cardinality(MatchingRows)

\* A finished extraction loop that kept some rows and dropped another.
C1_Witness ==
    /\ pc = "extract"
    /\ row > Len(date_series)
    /\ Len(years) >= 2
    /\ Len(years) < Len(date_series)

\* The four tables are the ones printed and handed to the exporter once
\* analyze_dates is past the print loop.
TablesHandedOver == pc \in {"export", "save_chart"} \/ stats_df # <<>>

\* C2: each of the four tables printed and exported sums to the number of
\* extracted tuples.
C2_TableSumsEqualTupleCount ==
    TablesHandedOver =>
        /\ SumSeq(Counts(year_counts)) = Len(years)
        /\ SumSeq(Counts(month_counts)) = Len(years)
        /\ SumSeq(Counts(day_counts)) = Len(years)
        /\ SumSeq(Counts(hour_counts)) = Len(years)

PairCount(ys, us, y, u) == Cardinality({k \in 1..Len(ys) : ys[k] = y /\ us[k] = u})

Ascending(xs) == \A k \in 1..(Len(xs) - 1) : xs[k] < xs[k + 1]

SeqSet(xs) == {xs[k] : k \in 1..Len(xs)}

MatrixSum(m) == SumSeq([i \in 1..Len(m) |-> SumSeq(m[i])])

MatrixOf(m, us, width) ==
    /\ Len(m) = Len(unique_years)
    /\ \A i \in 1..Len(m) :
          /\ Len(m[i]) = width
          /\ \A u \in 1..width : m[i][u] = PairCount(years, us, unique_years[i], u)
    /\ MatrixSum(m) = Len(years)

\* C3: whenever at least one row matched, the aggregation yields the two
\* matrices with one row per distinct year in ascending order, 12 resp. 31
\* columns, every cell the number of tuples with that year and unit, and the
\* cells summing to the number of tuples, whatever month and day values the
\* extractor accepted.
C3_MatricesCountEveryTuple ==
    (pc = "done" /\ HasData(years)) =>
        /\ Ascending(unique_years)
        /\ SeqSet(unique_years) = SeqSet(years)
        /\ MatrixOf(month_matrix, months, NumMonths)
        /\ MatrixOf(day_matrix, days, NumDays)

ExporterCalled == stats_df # <<>> \/ console \cap {"stats_saved", "export_error"} # {}

\* C4: the statistics file and the chart are written only if a tuple was
\* extracted; with a missing file, an unreadable column or no matching row
\* analyze_dates reports the condition and returns from the extraction stage
\* at the latest, the exporter never called and no artifact written.
C4_NoArtifactWithoutData ==
    /\ (stats_file.exists \/ chart_file) => Len(years) >= 1
    /\ (InputUnreadable \/ (pc = "done" /\ Len(years) = 0)) =>
          /\ pc \in {"start", "extract", "done"}
          /\ ~ExporterCalled
          /\ ~stats_file.exists
          /\ ~chart_file
          /\ pc = "done" => console \cap {"analysis_error", "no_match"} # {}
          /\ pc # "done" => ENABLED (OpenCsv \/ ExtractRow \/ NoMatchReturn)

\* A readable column with rows of which none matches: reported, nothing
\* written.
C4_Witness ==
    /\ pc = "done"
    /\ Len(date_series) >= 1
    /\ "no_match" \in console

SortedSparse(t, field) ==
    /\ Ascending(Keys(t))
    /\ SeqSet(Keys(t)) = SeqSet(field)
    /\ \A k \in 1..Len(t) : t[k][2] > 0

\* C5: each of the four exported tables lists its keys in strictly ascending
\* order and holds exactly the values that occur among the tuples, each with
\* a count greater than 0.
C5_TablesAscendingAndSparse ==
    TablesHandedOver =>
        /\ SortedSparse(year_counts, years)
        /\ SortedSparse(month_counts, months)
        /\ SortedSparse(day_counts, days)
        /\ SortedSparse(hour_counts, hours)

\* C6: once the table has loaded, main calls the four analysis steps once
\* each, in order, and returns, whatever failed on the way.
C6_EveryStepAttempted ==
    (df.loaded /\ mpc \in {"returned", "raised"}) =>
        /\ steps = <<"chi_square", "anova", "correlation", "time_series">>
        /\ mpc = "returned"

MaxLen4 ==
    Max2(Max2(Len(year_counts), Len(month_counts)),
         Max2(Len(day_counts), Len(hour_counts)))

\* The key and the count column of the flat table carry table t at
\* positions 1..Len(t) and the missing-value marker from there to Len.
CarriesPadded(keycol, countcol, t, L) ==
    /\ Len(keycol) = L
    /\ Len(countcol) = L
    /\ \A k \in 1..Len(t) : keycol[k] = Num(t[k][1]) /\ countcol[k] = Num(t[k][2])
    /\ \A k \in (Len(t) + 1)..L : IsNaN(keycol[k]) /\ IsNaN(countcol[k])

\* C7: the flat table of save_statistics_to_csv has eight columns of length
\* L, the largest of the four table lengths; each table fills its two
\* columns in its own order from the top and the missing-value marker fills
\* the rest, so a table of length L is not padded.
C7_FlatTablePaddedToLongest ==
    ExporterCalled =>
        /\ Len(stats_df) = Len(ColumnNames)
        /\ CarriesPadded(stats_df[Col("year")], stats_df[Col("year_count")],
                         year_counts, MaxLen4)
        /\ CarriesPadded(stats_df[Col("month")], stats_df[Col("month_count")],
                         month_counts, MaxLen4)
        /\ CarriesPadded(stats_df[Col("day")], stats_df[Col("day_count")],
                         day_counts, MaxLen4)
        /\ CarriesPadded(stats_df[Col("hour")], stats_df[Col("hour_count")],
                         hour_counts, MaxLen4)

\* An exported table in which the year table is padded and the hour table,
\* the longest, is not.
C7_Witness ==
    /\ ExporterCalled
    /\ Len(year_counts) < Len(hour_counts)
    /\ Len(hour_counts) = MaxLen4
    /\ Len(hour_counts) >= 2

\* The rows of two re-read columns that are not padding, as <<key, count>>.
RECURSIVE DropPadding(_, _)
DropPadding(keycol, countcol) ==
    IF keycol = <<>> THEN <<>>
    ELSE LET rest == DropPadding(Tail(keycol), Tail(countcol))
         IN  IF IsNaN(keycol[1]) /\ IsNaN(countcol[1]) THEN rest
             ELSE <<(<<keycol[1], countcol[1]>>)>> \o rest

Recovers(keycol, countcol, t) ==
    /\ DropPadding(keycol, countcol) = [k \in 1..Len(t) |-> <<Num(t[k][1]), Num(t[k][2])>>]
    /\ \A k \in 1..Len(countcol) : (k > Len(t)) <=> IsNaN(countcol[k])
    /\ \A k \in 1..Len(countcol) : (k > Len(t)) => countcol[k] # Num(0)

\* C8: the table re-read from the exported file gives back, for each field,
\* the sequence of (key, count) pairs of the exported table once the padding
\* rows are dropped; a field is missing exactly where it is padding, and a
\* padding field never reads as the count 0.
C8_ExportRoundTrip ==
    df.loaded =>
        /\ Recovers(df.cols[Col("year")], df.cols[Col("year_count")], year_counts)
        /\ Recovers(df.cols[Col("month")], df.cols[Col("month_count")], month_counts)
        /\ Recovers(df.cols[Col("day")], df.cols[Col("day_count")], day_counts)
        /\ Recovers(df.cols[Col("hour")], df.cols[Col("hour_count")], hour_counts)

\* A re-read table with padding in the year columns and more than one row.
C8_Witness ==
    /\ df.loaded
    /\ Len(df.cols[Col("hour")]) >= 2
    /\ HasNaN(df.cols[Col("year")])
    /\ ~HasNaN(df.cols[Col("hour")])

Computed ==
    <<years, months, days, hours, year_counts, hour_counts, month_counts, day_counts,
      unique_years, month_matrix, day_matrix>>

\* C9: the export step always hands on to the chart-saving step with the
\* tables and matrices as they were, and when nothing was written the
\* exporter has reported the error and returned None; the chart-saving step
\* can then be taken.
C9_ExportFailureIsLocal ==
    /\ [][pc = "export" =>
            /\ pc' = "save_chart"
            /\ Computed' = Computed
            /\ stats_file' = stats_file =>
                  /\ stats_path' = None
                  /\ "export_error" \in console']_vars
    /\ [](pc = "save_chart" => ENABLED SaveChart)
    /\ []("export_error" \in console => pc \in {"save_chart", "done"})

\* The export failed and the chart was saved all the same.
C9_Witness ==
    /\ "export_error" \in console
    /\ ~stats_file.exists
    /\ chart_file
    /\ pc = "done"

\* C10: the chi-square test and the ANOVA work on dense data: the contingency
\* table has a row for each of the 12 months and the ANOVA a group for each
\* of the 24 hours.
C10_TestsOnDenseTables ==
    /\ chi2 # "unset" => month_data.rows = [m \in 1..NumMonths |-> m]
    /\ f_stat # "unset" => Keys(hour_groups) = [h \in 1..NumHours |-> h - 1]

\* The count the exported hour table holds for hour h, 0 when h is no key.
ExportedCount(h) ==
    IF \E k \in 1..Len(hour_counts) : hour_counts[k][1] = h
    THEN hour_counts[CHOOSE k \in 1..Len(hour_counts) : hour_counts[k][1] = h][2]
    ELSE 0

\* C11: the hourly series of perform_time_series_analysis has exactly 24
\* entries, keyed 0..23 in ascending order; entry h is the exported count of
\* hour h, or 0 when the table has no hour h; padding rows add no entry.
C11_HourSeriesDense ==
    time_series.returned =>
        /\ Len(time_series.series) = NumHours
        /\ \A h \in 0..(NumHours - 1) :
              time_series.series[h + 1] = <<h, ExportedCount(h)>>

\* A series built from a table whose hour columns are padded and hold a
\* count above 1.
C11_Witness ==
    /\ time_series.returned
    /\ HasNaN(df.cols[Col("hour")])
    /\ \E h \in 0..(NumHours - 1) : ExportedCount(h) >= 2

\* C12: over the 24-hour series the rolling mean with window 3 is missing,
\* not zero, at positions 0 and 1, and at every position i in 2..23 it is the
\* mean of the counts at hours i-2, i-1, i, with no wraparound; on the series
\* 1, 2, ..., 24 the value at position 2 is 2.
C12_RollingMeanWindow3 ==
    roll_pc = "done" =>
        /\ Len(roll_ma) = NumHours
        /\ \A i \in 1..2 : IsNaN(roll_ma[i])
        /\ \A i \in 3..NumHours :
              /\ ~IsNaN(roll_ma[i])
              /\ SameNumber(roll_ma[i],
                            <<roll_series[i - 2] + roll_series[i - 1] + roll_series[i], 3>>)
        /\ roll_series = Ramp => SameNumber(roll_ma[3], <<2, 1>>)

\* The rolling mean of 1, 2, ..., 24 has been computed.
C12_Witness ==
    /\ roll_pc = "done"
    /\ roll_series = Ramp
    /\ roll_ma[3] = <<6, 3>>

\* C13: a run on a readable file with at least one matching row ends only
\* after the export step and the chart-saving step, whatever month, day and
\* hour values the extractor accepted.
C13_MatchedDataReachesExport ==
    (pc = "done" /\ Len(years) >= 1) =>
        /\ ExporterCalled
        /\ console \cap {"chart_saved", "analysis_error"} # {}

\* C14: batch_merge with the default output path is repeatable: every run on
\* the unchanged source files merges the same files, never merged_all.csv of
\* an earlier run, and writes the same merged_all.csv; with fewer than 2 CSV
\* files nothing is written.
C14_BatchMergeRepeatable ==
    \A i \in 1..Len(merge_log) :
        /\ \A k \in 1..Len(merge_log[i].merged) : merge_log[i].merged[k] # DefaultOutput
        /\ merge_log[i].merged = merge_log[1].merged
        /\ merge_log[i].output = merge_log[1].output
        /\ Len(merge_log[i].merged) < 2 => ~merge_log[i].wrote

====
